---- MODULE Spec2Model ----
(***************************************************************************)
(* A model of src/app.js: the LangflowClient request client                *)
(* (post / initiateSession / runFlow), its stream consumer (handleStream), *)
(* the cached lookup getInsights and the fastify gateway routes.           *)
(*                                                                         *)
(* Four specifications share the module:                                   *)
(*   SpecClient  initiateSession and runFlow called with arbitrary         *)
(*               arguments, one upstream fetch settling in every way;      *)
(*   SpecStream  one handleStream consumer, its EventSource and timers;    *)
(*   Spec        concurrent getInsights calls and GET /insights requests   *)
(*               over the shared insightsCache;                            *)
(*   SpecGateway the rate limiter in front of GET /health and              *)
(*               GET /insights/:keyword, requests answered one by one.     *)
(*                                                                         *)
(* JavaScript values are tagged records, error messages are the sequence   *)
(* of the pieces of the template literal that builds them.                 *)
(***************************************************************************)
EXTENDS Integers, Sequences, FiniteSets, Bags, TLC

VARIABLES
    \* --- SpecClient ---
    cPc,        \* "idle" | "awaitFetch": position of the client call
    cCall,      \* the arguments of the current (or last) client call
    cFetches,   \* the fetch requests that call has issued
    cDone,      \* how the last client call settled
    cOutcome,   \* how the fetch of that call settled, if it issued one
    \* --- SpecStream ---
    readyState,         \* of the EventSource: "none" | "open" | "closed"
    heartbeatTimeout,   \* the variable of handleStream: 0 (undefined) or a timer id
    timers,             \* pending timers: id -> deadline
    nextTimer,          \* the id setTimeout hands out next
    sNow,               \* the clock of the stream's event loop (ms)
    log,                \* the callbacks delivered so far
    sThrown,            \* what the handleStream call threw, if it did
    \* --- Spec ---
    calls,      \* the getInsights calls in flight (a bag)
    net,        \* the upstream requests in flight (a bag)
    cache,      \* insightsCache
    now,        \* the clock (s)
    token,      \* process.env.MODEL_TOKEN
    last,       \* the getInsights call that settled in the last step, if one did
    \* --- SpecGateway ---
    rlCurrent,  \* the rate limiter's count of requests in the current window
    rlExpires,  \* when that window ends (s); 0 before the first request
    gResp       \* the response to the last request the gateway answered

clientVars == <<cPc, cCall, cFetches, cDone, cOutcome>>
streamVars == <<readyState, heartbeatTimeout, timers, nextTimer, sNow, log, sThrown>>
insightVars == <<calls, net, cache, now, token, last>>
gatewayVars == <<rlCurrent, rlExpires, gResp>>
vars == <<clientVars, streamVars, insightVars, gatewayVars>>

----------------------------------------------------------------------------
(* JavaScript values *)

Undefined == [tag |-> "undefined"]
Null == [tag |-> "null"]
Str(s) == [tag |-> "string", v |-> s]
Obj(f) == [tag |-> "object", f |-> f]
Arr(s) == [tag |-> "array", s |-> s]
EventSourceHandle == [tag |-> "EventSource"]

\* ToBoolean: undefined, null and "" are falsy; objects and arrays are truthy.
Truthy(v) ==
    CASE v.tag = "undefined" -> FALSE
      [] v.tag = "null" -> FALSE
      [] v.tag = "string" -> v.v # ""
      [] OTHER -> TRUE

\* v?.k
Member(v, k) ==
    IF v.tag = "object" /\ k \in DOMAIN v.f THEN v.f[k] ELSE Undefined

\* v?.[0]  (the element of a string is a character, whose members are undefined)
Index0(v) ==
    IF v.tag = "array" /\ Len(v.s) >= 1 THEN v.s[1] ELSE Undefined

\* `${v}` for the values a message interpolates
StringOf(v) ==
    IF v.tag = "string" THEN v.v ELSE "[object Object]"

BoolStr(b) == IF b THEN "true" ELSE "false"

\* How an async function settles.
Return(v) == [t |-> "return", v |-> v]
Throw(m) == [t |-> "throw", message |-> m]
NotSettled == [t |-> "none"]

----------------------------------------------------------------------------
(* What the upstream can answer *)

\* response?.outputs?.[0]?.outputs?.[0]?.outputs?.message?.message?.text
TextPath(r) ==
    Member(Member(Member(Member(Index0(Member(Index0(Member(r, "outputs")),
        "outputs")), "outputs"), "message"), "message"), "text")

\* initResponse?.outputs?.[0]?.outputs?.[0]?.artifacts?.stream_url
StreamUrlPath(r) ==
    Member(Member(Index0(Member(Index0(Member(r, "outputs")), "outputs")),
        "artifacts"), "stream_url")

\* A run response whose inner output is `inner`.
RunResponse(inner) ==
    Obj([outputs |-> Arr(<<Obj([outputs |-> Arr(<<inner>>)])>>)])

TextResponse(text) ==
    RunResponse(Obj([outputs |-> Obj([message |-> Obj([message |->
        Obj([text |-> text])])])]))

StreamResponse(url) ==
    RunResponse(Obj([artifacts |-> Obj([stream_url |-> Str(url)])]))

JsonBody(v) == [json |-> TRUE, v |-> v]
NotJsonBody == [json |-> FALSE]

Response(status, statusText, body) ==
    [kind |-> "response", status |-> status, statusText |-> statusText,
     body |-> body]
Rejected(cause) == [kind |-> "rejected", cause |-> cause]

\* The ways one fetch can settle.
FetchOutcomes ==
    { Rejected(<<"fetch failed">>),
      Response(200, "OK", JsonBody(TextResponse(Str("T1")))),
      Response(200, "OK", JsonBody(TextResponse(Str("T2")))),
      Response(200, "OK", JsonBody(TextResponse(Str("")))),
      Response(200, "OK", JsonBody(RunResponse(Obj([outputs |-> Obj(<<>>)])))),
      Response(200, "OK", JsonBody(Obj([outputs |-> Arr(<<>>)]))),
      Response(200, "OK", JsonBody(StreamResponse("http://stream"))),
      Response(200, "OK", JsonBody(Null)),
      Response(200, "OK", NotJsonBody),
      Response(500, "Internal Server Error",
               JsonBody(Obj([message |-> Str("boom")]))),
      Response(404, "Not Found", NotJsonBody),
      Response(429, "Too Many Requests", JsonBody(Obj(<<>>))),
      Response(503, "Service Unavailable", JsonBody(Null)) }

----------------------------------------------------------------------------
(* LangflowClient *)

\* response.ok
Ok(status) == status >= 200 /\ status <= 299

\* post, from the moment its fetch settles with outcome o.
Post(o) ==
    IF o.kind = "rejected"
    THEN Throw(<<"Request failed: ">> \o o.cause)
    ELSE IF ~Ok(o.status)
    THEN LET errorData == IF o.body.json THEN o.body.v ELSE Obj(<<>>)
         IN  IF errorData.tag = "null"
             THEN \* errorData.message throws a TypeError inside the try
                  Throw(<<"Request failed: ",
                          "Cannot read properties of null (reading 'message')">>)
             ELSE Throw(<<"Request failed: ", "HTTP ", ToString(o.status), ": ",
                          IF Truthy(Member(errorData, "message"))
                          THEN StringOf(Member(errorData, "message"))
                          ELSE o.statusText>>)
    ELSE \* return response.json(): a rejection here passes the catch by
         IF o.body.json
         THEN Return(o.body.v)
         ELSE Throw(<<"Unexpected token < in JSON at position 0">>)

\* (mutant) the guard forgets inputValue
MissingParametersButInput(flowId, langflowId, inputValue) ==
    ~Truthy(flowId) \/ ~Truthy(langflowId)

\* The guard of initiateSession.
MissingParameters(flowId, langflowId, inputValue) ==
    ~Truthy(flowId) \/ ~Truthy(langflowId) \/ ~Truthy(inputValue)

Endpoint(flowId, langflowId, stream) ==
    <<"/lf/", StringOf(langflowId), "/api/v1/run/", StringOf(flowId),
      "?stream=", BoolStr(stream)>>

\* The request initiateSession hands to post.
SessionRequest(flowId, langflowId, inputValue, inputType, outputType, stream) ==
    [url |-> Endpoint(flowId, langflowId, stream),
     body |-> [input_value |-> inputValue, input_type |-> inputType,
               output_type |-> outputType]]

\* The requests initiateSession issues before its first await.
InitiateSessionFetches(flowId, langflowId, inputValue, inputType, outputType, stream) ==
    IF MissingParameters(flowId, langflowId, inputValue)
    THEN <<>>
    ELSE <<SessionRequest(flowId, langflowId, inputValue, inputType,
                          outputType, stream)>>

\* runFlow, from the moment initiateSession settles as `init`.
RunFlow(stream, init) ==
    IF init.t = "throw"
    THEN Throw(<<"Flow execution failed: ">> \o init.message)
    ELSE IF stream /\ Truthy(StreamUrlPath(init.v))
    THEN Return(EventSourceHandle)
    ELSE init

----------------------------------------------------------------------------
(* SpecClient: initiateSession and runFlow, called directly *)

\* The values a caller can pass for flowId, langflowId and inputValue.
ArgValues == {Undefined, Str(""), Str("a")}

NoCall == [fn |-> "none"]
NoOutcome == [kind |-> "none"]

\* What the entry point `fn` makes of initiateSession settling as `init`.
ClientSettle(fn, stream, init) ==
    IF fn = "runFlow" THEN RunFlow(stream, init) ELSE init

ClientInit ==
    /\ cPc = "idle"
    /\ cCall = NoCall
    /\ cFetches = <<>>
    /\ cDone = NotSettled
    /\ cOutcome = NoOutcome

\* initiateSession(...) or runFlow(...) is called: everything up to the
\* await of fetch, or to the throw of the parameter check.
ClientCall(fn, flowId, langflowId, inputValue, stream) ==
    /\ cPc = "idle"
    /\ cCall' = [fn |-> fn, flowId |-> flowId, langflowId |-> langflowId,
                 inputValue |-> inputValue, stream |-> stream]
    /\ cFetches' = InitiateSessionFetches(flowId, langflowId, inputValue,
                                          "chat", "chat", stream)
    /\ cOutcome' = NoOutcome
    /\ IF cFetches' = <<>>
       THEN /\ cPc' = "idle"
            /\ cDone' = ClientSettle(fn, stream,
                                     Throw(<<"Missing required parameters">>))
       ELSE /\ cPc' = "awaitFetch"
            /\ cDone' = NotSettled
    /\ UNCHANGED <<streamVars, insightVars, gatewayVars>>

\* The fetch settles and the call runs to its end.
ClientFetchSettles(o) ==
    /\ cPc = "awaitFetch"
    /\ cPc' = "idle"
    /\ cOutcome' = o
    /\ cDone' = ClientSettle(cCall.fn, cCall.stream, Post(o))
    /\ UNCHANGED <<cCall, cFetches, streamVars, insightVars, gatewayVars>>

ClientNext ==
    \/ \E fn \in {"initiateSession", "runFlow"}, f, g, i \in ArgValues,
          s \in BOOLEAN : ClientCall(fn, f, g, i, s)
    \/ \E o \in FetchOutcomes : ClientFetchSettles(o)

----------------------------------------------------------------------------
(* SpecStream: one consumer made by handleStream *)

HeartbeatMs == 30000

\* Bounds: the messages one stream delivers and the time it is watched for,
\* in idle windows.
MaxMessages == 3
MaxWindows == 3

\* The payloads event.data can carry (an EventSource dispatches no message
\* whose data is empty).
Payloads == {"{\"chunk\":\"a\"}", "{}", "null", "not json", "{\"chunk\":"}

\* JSON.parse(event.data)
JsonParse(data) ==
    CASE data = "{\"chunk\":\"a\"}" ->
            [ok |-> TRUE, v |-> Obj([chunk |-> Str("a")])]
      [] data = "{}" -> [ok |-> TRUE, v |-> Obj(<<>>)]
      [] data = "null" -> [ok |-> TRUE, v |-> Null]
      [] data = "{\"chunk\":" ->
            [ok |-> FALSE, message |-> "Unexpected end of JSON input"]
      [] OTHER -> [ok |-> FALSE,
                   message |-> "Unexpected token o in JSON at position 1"]

\* The onUpdate that getInsights passes reads data.chunk: a TypeError when
\* the parsed value is null.
OnUpdateThrows(data) == data.tag \in {"null", "undefined"}

ErrorArg(m) == [kind |-> "Error", message |-> m]
EventArg(type) == [kind |-> "Event", type |-> type]

\* The ordinal of the event being dispatched (every event delivers a callback).
ThisEvent == IF log = <<>> THEN 1 ELSE log[Len(log)].ev + 1

\* One callback invocation: which, with what, caused by what, and the
\* readyState of the EventSource and the time when it was made.
Invocation(cb, arg, cause, state) ==
    [cb |-> cb, arg |-> arg, cause |-> cause, ev |-> ThisEvent,
     state |-> state, at |-> sNow]

\* clearTimeout(id) on the timer table ts
ClearTimeout(ts, id) == {t \in ts : t.id # id}

\* (mutant) resetHeartbeat arms a new timer and leaves the old one armed
ResetHeartbeatKeepsOld ==
    /\ timers' = timers \cup {[id |-> nextTimer,
                                deadline |-> sNow + HeartbeatMs]}
    /\ heartbeatTimeout' = nextTimer
    /\ nextTimer' = nextTimer + 1

\* resetHeartbeat()
ResetHeartbeat ==
    /\ timers' = (IF heartbeatTimeout # 0
                  THEN ClearTimeout(timers, heartbeatTimeout)
                  ELSE timers)
                 \cup {[id |-> nextTimer, deadline |-> sNow + HeartbeatMs]}
    /\ heartbeatTimeout' = nextTimer
    /\ nextTimer' = nextTimer + 1

StreamInit ==
    /\ readyState = "none"
    /\ heartbeatTimeout = 0
    /\ timers = {}
    /\ nextTimer = 1
    /\ sNow = 0
    /\ log = <<>>
    /\ sThrown = <<>>

\* handleStream(streamUrl, onUpdate, onClose, onError)
HandleStream(streamUrl) ==
    /\ readyState = "none"
    /\ sThrown = <<>>
    /\ IF ~Truthy(streamUrl)
       THEN /\ sThrown' = <<"Stream URL is required">>
            /\ UNCHANGED <<readyState, heartbeatTimeout, timers, nextTimer>>
       ELSE /\ readyState' = "connecting"
            /\ ResetHeartbeat
            /\ UNCHANGED sThrown
    /\ UNCHANGED <<sNow, log, clientVars, insightVars, gatewayVars>>

\* The connection is established (no handler is registered for "open").
StreamOpens ==
    /\ readyState = "connecting"
    /\ readyState' = "open"
    /\ UNCHANGED <<heartbeatTimeout, timers, nextTimer, sNow, log, sThrown,
                   clientVars, insightVars, gatewayVars>>

\* (mutant) the catch reports the parse failure and leaves the stream open
OnMessageStaysOpen(data) ==
    /\ ResetHeartbeat
    /\ log' = Append(log, Invocation(
                 IF JsonParse(data).ok THEN "onUpdate" ELSE "onError",
                 IF JsonParse(data).ok THEN JsonParse(data).v
                 ELSE ErrorArg(<<"Failed to parse stream data: ",
                                 JsonParse(data).message>>),
                 [type |-> "message", data |-> data], readyState))
    /\ UNCHANGED readyState

\* eventSource.onmessage
OnMessage(data) ==
    LET cause == [type |-> "message", data |-> data]
        parsed == JsonParse(data)
    IN  /\ ResetHeartbeat
        /\ IF ~parsed.ok
           THEN /\ log' = Append(log, Invocation("onError",
                        ErrorArg(<<"Failed to parse stream data: ",
                                   parsed.message>>), cause, readyState))
                /\ readyState' = "closed"
           ELSE IF OnUpdateThrows(parsed.v)
           THEN \* the throw of onUpdate lands in the same catch
                /\ log' = log \o
                     <<Invocation("onUpdate", parsed.v, cause, readyState),
                       Invocation("onError",
                        ErrorArg(<<"Failed to parse stream data: ",
                           "Cannot read properties of null (reading 'chunk')">>),
                        cause, readyState)>>
                /\ readyState' = "closed"
           ELSE /\ log' = Append(log, Invocation("onUpdate", parsed.v, cause,
                                                 readyState))
                /\ UNCHANGED readyState

\* A message event is dispatched.
MessageEvent(data) ==
    /\ readyState = "open"
    /\ Cardinality({i \in DOMAIN log : log[i].cause.type = "message"
                                       /\ log[i].cb # "onError"})
          < MaxMessages
    /\ OnMessage(data)
    /\ UNCHANGED <<sNow, sThrown, clientVars, insightVars, gatewayVars>>

\* eventSource.onerror
OnError ==
    /\ timers' = ClearTimeout(timers, heartbeatTimeout)
    /\ log' = Append(log, Invocation("onError", EventArg("error"),
                                     [type |-> "error"], readyState))
    /\ readyState' = "closed"

\* An error event is dispatched: the connection failed or dropped.
ErrorEvent ==
    /\ readyState \in {"connecting", "open"}
    /\ OnError
    /\ UNCHANGED <<heartbeatTimeout, nextTimer, sNow, sThrown,
                   clientVars, insightVars, gatewayVars>>

\* The listener of the server's "close" event
OnCloseEvent ==
    /\ timers' = ClearTimeout(timers, heartbeatTimeout)
    /\ log' = Append(log, Invocation("onClose", Str("Stream closed"),
                                     [type |-> "close"], readyState))
    /\ readyState' = "closed"

\* The server sends the event named "close".
CloseEvent ==
    /\ readyState = "open"
    /\ OnCloseEvent
    /\ UNCHANGED <<heartbeatTimeout, nextTimer, sNow, sThrown,
                   clientVars, insightVars, gatewayVars>>

\* (mutant) the callback reports before it closes
OnTimeoutReportsFirst ==
    /\ log' = Append(log, Invocation("onError", ErrorArg(<<"Stream timeout">>),
                                     [type |-> "timeout"], readyState))
    /\ readyState' = "closed"

\* The callback resetHeartbeat hands to setTimeout
OnTimeout ==
    /\ readyState' = "closed"
    /\ log' = Append(log, Invocation("onError", ErrorArg(<<"Stream timeout">>),
                                     [type |-> "timeout"], "closed"))

\* A pending timer comes due and its callback runs.
TimerFires ==
    \E t \in timers :
        /\ t.deadline <= sNow
        /\ timers' = timers \ {t}
        /\ OnTimeout
        /\ UNCHANGED <<heartbeatTimeout, nextTimer, sNow, sThrown,
                       clientVars, insightVars, gatewayVars>>

\* The caller calls close() on the handle handleStream returned.
CallerCloses ==
    /\ readyState \in {"connecting", "open", "closed"}
    /\ readyState' = "closed"
    /\ UNCHANGED <<heartbeatTimeout, timers, nextTimer, sNow, log, sThrown,
                   clientVars, insightVars, gatewayVars>>

\* The earliest instant a pending timer is due, if any is pending.
NextDeadline(horizon) ==
    IF timers = {} THEN horizon
    ELSE CHOOSE d \in {t.deadline : t \in timers} :
            \A t \in timers : d <= t.deadline

\* Time passes, by half a window or a whole one, but not past a due timer.
StreamTimePasses ==
    /\ readyState # "none"
    /\ \E d \in {HeartbeatMs \div 2, HeartbeatMs} :
          LET horizon == MaxWindows * HeartbeatMs
              target == IF sNow + d <= NextDeadline(horizon)
                        THEN sNow + d ELSE NextDeadline(horizon)
          IN  /\ target > sNow
              /\ target <= horizon
              /\ sNow' = target
    /\ UNCHANGED <<readyState, heartbeatTimeout, timers, nextTimer, log,
                   sThrown, clientVars, insightVars, gatewayVars>>

StreamNext ==
    \/ \E u \in {Undefined, Str(""), Str("http://stream")} : HandleStream(u)
    \/ StreamOpens
    \/ \E data \in Payloads : MessageEvent(data)
    \/ ErrorEvent
    \/ CloseEvent
    \/ TimerFires
    \/ CallerCloses
    \/ StreamTimePasses

----------------------------------------------------------------------------
(* Spec: getInsights over insightsCache, and GET /insights/:keyword *)

stdTTL == 3600

\* Bounds: the getInsights calls in flight at once, and the hours the cache is watched for.
MaxCalls == 2
MaxHours == 1

Keywords == {"rust-servers", "go"}
\* The (inputType, outputType) pairs a direct caller passes.
Modes == {<<"chat", "chat">>, <<"text", "json">>}
Texts == {Str("T1"), Str("T2")}

FlowIdOrName == Str("5d664ca6-224d-4112-b143-d31786f9a046")
LangflowId == Str("aa552875-56d4-431d-94bd-389aa1c8d68f")

\* (mutant) the key leaves the keyword out
CacheKeyConstant(inputValue) == "insights-"

\* `insights-${inputValue}`
CacheKey(inputValue) == "insights-" \o inputValue

\* node-cache: an entry with a ttl is expired once its time lies in the past.
Expired(entry, t) == entry.t # 0 /\ entry.t < t

\* (mutant) the expiry test is inverted
CacheGetInverted(c, key, t) ==
    IF key \in DOMAIN c /\ Expired(c[key], t) THEN c[key].v ELSE Undefined

\* insightsCache.get(key) at time t
CacheGet(c, key, t) ==
    IF key \in DOMAIN c /\ ~Expired(c[key], t) THEN c[key].v ELSE Undefined

\* What get leaves of the cache: an expired entry it touches is deleted.
CacheAfterGet(c, key, t) ==
    IF key \in DOMAIN c /\ Expired(c[key], t)
    THEN [x \in DOMAIN c \ {key} |-> c[x]]
    ELSE c

\* (mutant) the cache is built without stdTTL: entries never expire
CacheSetForever(c, key, v, t) ==
    [x \in DOMAIN c \cup {key} |->
        IF x = key THEN [v |-> v, t |-> 0] ELSE c[x]]

\* insightsCache.set(key, v) at time t: the entry lives stdTTL seconds.
CacheSet(c, key, v, t) ==
    [x \in DOMAIN c \cup {key} |->
        IF x = key THEN [v |-> v, t |-> t + stdTTL] ELSE c[x]]

\* (mutant) a response without the text is handed back whole
GetInsightsSettleLenient(stream, flow) ==
    IF flow.t = "throw"
    THEN Throw(<<"Failed to get insights: ">> \o flow.message)
    ELSE IF ~stream /\ Truthy(TextPath(flow.v))
    THEN Return(TextPath(flow.v))
    ELSE Return(flow.v)

\* getInsights, from the moment runFlow settles as `flow`: how it settles.
GetInsightsSettle(stream, flow) ==
    IF flow.t = "throw"
    THEN Throw(<<"Failed to get insights: ">> \o flow.message)
    ELSE IF ~stream /\ Truthy(TextPath(flow.v))
    THEN Return(TextPath(flow.v))
    ELSE Throw(<<"Failed to get insights: ", "Invalid response format">>)

\* (mutant) the text is returned and never stored
CacheAfterSettleNoSet(c, inputValue, stream, flow, t) == c

\* (mutant) the text is stored whether or not the call is a stream call
CacheAfterSettleAnyMode(c, inputValue, stream, flow, t) ==
    IF flow.t = "return" /\ Truthy(TextPath(flow.v))
    THEN CacheSet(c, CacheKey(inputValue), TextPath(flow.v), t)
    ELSE c

\* ... and what it leaves of the cache.
CacheAfterSettle(c, inputValue, stream, flow, t) ==
    IF flow.t = "return" /\ ~stream /\ Truthy(TextPath(flow.v))
    THEN CacheSet(c, CacheKey(inputValue), TextPath(flow.v), t)
    ELSE c

\* (mutant) the handler rethrows as 502 Bad Gateway
RouteHandlerBadGateway(done) ==
    IF done.t = "return"
    THEN [t |-> "return", v |-> [success |-> TRUE, data |-> done.v]]
    ELSE [t |-> "throw",
          error |-> [statusCode |-> 502, message |-> done.message]]

\* The handler of GET /insights/:keyword, given how getInsights settled.
RouteHandler(done) ==
    IF done.t = "return"
    THEN [t |-> "return", v |-> [success |-> TRUE, data |-> done.v]]
    ELSE [t |-> "throw",
          error |-> [statusCode |-> 500, message |-> done.message]]

\* fastify.setErrorHandler
ErrorHandler(error) ==
    LET statusCode == IF error.statusCode # 0 THEN error.statusCode ELSE 500
    IN  [status |-> statusCode,
         body |-> [success |-> FALSE,
                   error |-> IF statusCode = 500
                             THEN <<"Internal Server Error">>
                             ELSE error.message]]

\* The response the gateway sends for a request the route handled.
Reply(done) ==
    IF RouteHandler(done).t = "return"
    THEN [status |-> 200, body |-> RouteHandler(done).v]
    ELSE ErrorHandler(RouteHandler(done).error)

NoReply == [status |-> 0]

\* What is recorded of a call that settled.
Settled(entry, inputValue, mode, stream, outcome, done) ==
    [entry |-> entry, inputValue |-> inputValue, mode |-> mode,
     stream |-> stream, outcome |-> outcome, done |-> done,
     http |-> IF entry = "route" THEN Reply(done) ELSE NoReply]

NoneSettled == [entry |-> "none"]
\* No call settled, and the call that started found its entry expired.
FoundExpired(inputValue) == [entry |-> "none", expired |-> inputValue]
\* inputType and outputType are dead once the request is on its way.
NoMode == <<>>

\* An upstream request in flight.
InFlight(req) ==
    [url |-> req.url, input_value |-> req.body.input_value]

\* (mutant) a call joins the request already in flight for its keyword
NetAfterFetchCoalesced(req) ==
    IF \E r \in BagToSet(net) : r.input_value = req.body.input_value
    THEN net
    ELSE net (+) SetToBag({InFlight(req)})

\* The requests in flight once a call has called fetch.
NetAfterFetch(req) == net (+) SetToBag({InFlight(req)})

\* A getInsights call at its await.
Awaiting(entry, inputValue, stream) ==
    [pc |-> "awaitFetch", entry |-> entry, inputValue |-> inputValue,
     stream |-> stream]

\* The in-flight requests that carry the keyword of call c.
RequestsOf(c) ==
    {r \in BagToSet(net) : r.input_value = Str(c.inputValue)}

InsightInit ==
    /\ calls = EmptyBag
    /\ net = EmptyBag
    /\ cache = <<>>
    /\ now = 0
    /\ token \in {Undefined, Str("secret")}
    /\ last = NoneSettled

\* getInsights(inputValue, inputType, outputType, stream) is called, by the
\* route (entry = "route") or directly: everything up to its first await.
GetInsights(entry, inputValue, mode, stream) ==
    LET cacheKey == CacheKey(inputValue)
        cachedResult == CacheGet(cache, cacheKey, now)
        fetches == InitiateSessionFetches(FlowIdOrName, LangflowId,
                        Str(inputValue), mode[1], mode[2], stream)
    IN  /\ BagCardinality(calls) < MaxCalls
        /\ cache' = CacheAfterGet(cache, cacheKey, now)
        /\ IF Truthy(cachedResult)
           THEN /\ last' = Settled(entry, inputValue, mode, stream, NoOutcome,
                                   Return(cachedResult))
                /\ UNCHANGED <<calls, net>>
           ELSE IF ~Truthy(token)
           THEN /\ last' = Settled(entry, inputValue, mode, stream, NoOutcome,
                        Throw(<<"MODEL_TOKEN environment variable is not set">>))
                /\ UNCHANGED <<calls, net>>
           ELSE IF fetches = <<>>
           THEN /\ last' = Settled(entry, inputValue, mode, stream, NoOutcome,
                        GetInsightsSettle(stream, RunFlow(stream,
                            Throw(<<"Missing required parameters">>))))
                /\ UNCHANGED <<calls, net>>
           ELSE /\ calls' = calls (+)
                            SetToBag({Awaiting(entry, inputValue, stream)})
                /\ net' = NetAfterFetch(fetches[1])
                /\ last' = IF cacheKey \in DOMAIN cache
                           THEN FoundExpired(inputValue)
                           ELSE NoneSettled
        /\ UNCHANGED <<now, token, clientVars, streamVars, gatewayVars>>

\* The fetch of a call c settles with outcome o and the call runs to its end.
FetchSettles(c, o) ==
    LET flow == RunFlow(c.stream, Post(o))
    IN  /\ BagIn(c, calls)
        /\ c.pc = "awaitFetch"
        /\ calls' = calls (-) SetToBag({c})
        /\ net' = IF RequestsOf(c) = {} THEN net
                  ELSE net (-) SetToBag({CHOOSE r \in RequestsOf(c) : TRUE})
        /\ cache' = CacheAfterSettle(cache, c.inputValue, c.stream, flow, now)
        /\ last' = Settled(c.entry, c.inputValue, NoMode, c.stream, o,
                           GetInsightsSettle(c.stream, flow))
        /\ UNCHANGED <<now, token, clientVars, streamVars, gatewayVars>>

\* Time passes: the ttl and a second, so that what was cached has expired.
TimePasses ==
    /\ now + stdTTL + 1 <= MaxHours * (stdTTL + 1)
    /\ now' = now + stdTTL + 1
    /\ last' = NoneSettled
    /\ UNCHANGED <<calls, net, cache, token, clientVars, streamVars, gatewayVars>>

\* node-cache's periodic check deletes the expired entries.
CacheCheckData ==
    /\ \E k \in DOMAIN cache : Expired(cache[k], now)
    /\ cache' = [k \in {x \in DOMAIN cache : ~Expired(cache[x], now)} |->
                    cache[k]]
    /\ last' = NoneSettled
    /\ UNCHANGED <<calls, net, now, token, clientVars, streamVars, gatewayVars>>

\* The ways the fetch of a getInsights call can settle.
InsightOutcomes ==
    { Rejected(<<"fetch failed">>),
      Response(200, "OK", JsonBody(TextResponse(Str("T1")))),
      Response(200, "OK", JsonBody(TextResponse(Str("T2")))),
      Response(200, "OK", JsonBody(TextResponse(Str("")))),
      Response(200, "OK", JsonBody(Obj([outputs |-> Arr(<<>>)]))),
      Response(200, "OK", JsonBody(StreamResponse("http://stream"))),
      Response(200, "OK", NotJsonBody),
      Response(500, "Internal Server Error",
               JsonBody(Obj([message |-> Str("boom")]))) }

InsightNext ==
    \/ \E k \in Keywords : GetInsights("route", k, <<"chat", "chat">>, FALSE)
    \/ \E k \in Keywords, m \in Modes, s \in BOOLEAN :
          GetInsights("direct", k, m, s)
    \/ \E c \in BagToSet(calls), o \in InsightOutcomes : FetchSettles(c, o)
    \/ TimePasses
    \/ CacheCheckData

----------------------------------------------------------------------------
(* SpecGateway: @fastify/rate-limit in front of the two routes *)

max == 100
\* '1 minute', in seconds
timeWindow == 60

\* Bounds: the requests sent beyond the limit within one window, and the
\* minutes the gateway is watched for.
MaxOver == 2
MaxMinutes == 2

\* The limiter's window is over (or none was opened yet).
WindowOver == rlExpires = 0 \/ rlExpires <= now

\* The count the limiter gives the arriving request.
Current == IF WindowOver THEN 1 ELSE rlCurrent + 1

\* (mutant) the limiter lets a request by while current < max
WithinLimitStrict(current) == current < max

\* The limiter lets the request by to its route handler.
WithinLimit(current) == current <= max

\* The error the limiter answers a request over the limit with, as the
\* error handler sends it.
RateLimited ==
    ErrorHandler([statusCode |-> 429,
                  message |-> <<"Rate limit exceeded, retry in 1 minute">>])

\* The handler of GET /health
HealthHandler ==
    [status |-> "ok", timestamp |-> now, uptime |-> now]

\* What is recorded of an answered request: its route, its count in the
\* limiter's window, whether its route handler ran, and the response.
Answered(route, current, handled, status, body) ==
    [route |-> route, current |-> current, handled |-> handled,
     status |-> status, body |-> body]

GatewayInit ==
    /\ rlCurrent = 0
    /\ rlExpires = 0
    /\ gResp = [route |-> "none"]

\* The onRequest hook of the limiter, for any route.
RateLimitHook ==
    /\ Current <= max + MaxOver
    /\ rlCurrent' = Current
    /\ rlExpires' = IF WindowOver THEN now + timeWindow ELSE rlExpires

\* GET /health
GetHealth ==
    /\ RateLimitHook
    /\ gResp' = IF WithinLimit(Current)
                THEN Answered("health", Current, TRUE, 200, HealthHandler)
                ELSE Answered("health", Current, FALSE, RateLimited.status,
                              RateLimited.body)
    /\ UNCHANGED <<insightVars, clientVars, streamVars>>

\* The upstream outcomes a gateway request meets.
GatewayOutcomes ==
    { Response(200, "OK", JsonBody(TextResponse(Str("T1")))),
      Response(500, "Internal Server Error",
               JsonBody(Obj([message |-> Str("boom")]))) }

\* GET /insights/:keyword, the upstream answering with outcome o if asked:
\* the request from the limiter to the response, with no other in between.
GetInsightsRoute(keyword, o) ==
    LET cachedResult == CacheGet(cache, CacheKey(keyword), now)
        flow == RunFlow(FALSE, Post(o))
        done == IF Truthy(cachedResult) THEN Return(cachedResult)
                ELSE IF ~Truthy(token)
                THEN Throw(<<"MODEL_TOKEN environment variable is not set">>)
                ELSE GetInsightsSettle(FALSE, flow)
    IN  /\ RateLimitHook
        /\ IF WithinLimit(Current)
           THEN /\ gResp' = Answered("insights", Current, TRUE,
                                     Reply(done).status, Reply(done).body)
                /\ cache' = IF Truthy(cachedResult) \/ ~Truthy(token)
                            THEN CacheAfterGet(cache, CacheKey(keyword), now)
                            ELSE CacheAfterSettle(
                                   CacheAfterGet(cache, CacheKey(keyword), now),
                                   keyword, FALSE, flow, now)
           ELSE /\ gResp' = Answered("insights", Current, FALSE,
                                     RateLimited.status, RateLimited.body)
                /\ UNCHANGED cache
        /\ UNCHANGED <<calls, net, now, token, last, clientVars, streamVars>>

\* A minute passes.
GatewayTimePasses ==
    /\ now + timeWindow <= MaxMinutes * timeWindow
    /\ now' = now + timeWindow
    /\ UNCHANGED <<calls, net, cache, token, last, gatewayVars,
                   clientVars, streamVars>>

GatewayNext ==
    \/ GetHealth
    \/ \E k \in Keywords, o \in GatewayOutcomes : GetInsightsRoute(k, o)
    \/ GatewayTimePasses

----------------------------------------------------------------------------
(* The specifications *)

Init == InsightInit /\ ClientInit /\ StreamInit /\ GatewayInit
Next == InsightNext
Spec == Init /\ [][Next]_vars

SpecClient == Init /\ [][ClientNext]_vars

SpecStream == Init /\ [][StreamNext]_vars

SpecGateway == Init /\ [][GatewayNext]_vars

----------------------------------------------------------------------------
(* The claims *)

\* A call of getInsights(k) is made in this step: it settles at once, or it
\* joins the calls in flight and awaits its fetch.
Called(k) ==
    \/ last'.entry # "none" /\ last'.outcome = NoOutcome
                            /\ last'.inputValue = k
    \/ /\ BagCardinality(calls') = BagCardinality(calls) + 1
       /\ \E c \in BagToSet(calls') :
             /\ c.inputValue = k
             /\ CopiesIn(c, calls') = CopiesIn(c, calls) + 1

\* C1: when the cache holds an unexpired entry with text X for keyword k, a
\* call getInsights(k) returns X at once, issues no upstream request and
\* leaves the cache as it is, so that a repeated call does the same.
C1_CacheHitServedFromCache ==
    [][\A k \in Keywords :
        (/\ CacheKey(k) \in DOMAIN cache
         /\ cache[CacheKey(k)].t >= now
         /\ Called(k))
        => /\ last'.entry # "none"
           /\ last'.outcome = NoOutcome
           /\ last'.done = Return(cache[CacheKey(k)].v)
           /\ net' = net
           /\ calls' = calls
           /\ cache' = cache]_vars

\* A call was answered from the cache while another call was in flight.
C1_Witness ==
    /\ last.entry # "none"
    /\ last.outcome = NoOutcome
    /\ last.done = Return(Str("T2"))
    /\ net # EmptyBag

\* The upstream answered the call that just settled with a 200 whose JSON
\* body carries `text` at outputs[0].outputs[0].outputs.message.message.text.
UpstreamCarried(text) ==
    /\ last.entry # "none"
    /\ last.outcome # NoOutcome
    /\ last.outcome.kind = "response"
    /\ last.outcome.status = 200
    /\ last.outcome.body.json
    /\ TextPath(last.outcome.body.v) = text

\* The cache holds `text` for the keyword of the call that just settled,
\* stored now.
CachedNow(text) ==
    /\ CacheKey(last.inputValue) \in DOMAIN cache
    /\ cache[CacheKey(last.inputValue)] = [v |-> text, t |-> now + stdTTL]

\* C2 as stated: whatever text T the upstream carries at the path, a
\* non-stream getInsights returns T and the cache then holds T.
C2_AnyTextReturnedAndCached ==
    \A text \in Texts \cup {Str("")} :
        (UpstreamCarried(text) /\ ~last.stream)
        => last.done = Return(text) /\ CachedNow(text)

\* C2, amended: for a non-empty text T at the path, a non-stream getInsights
\* returns T, and when it returns the cache holds T under the key of k.
C2_TextReturnedAndCached ==
    \A text \in Texts :
        (UpstreamCarried(text) /\ ~last.stream)
        => last.done = Return(text) /\ CachedNow(text)

\* A non-stream call returned the text T2 its upstream request carried.
C2_Witness ==
    /\ UpstreamCarried(Str("T2"))
    /\ ~last.stream
    /\ last.done = Return(Str("T2"))

IsTimeout(e) ==
    e.cb = "onError" /\ e.arg = ErrorArg(<<"Stream timeout">>)

\* The time of the last activity: the last message, or the attach.
LastActivity ==
    LET ms == {i \in DOMAIN log : log[i].cause.type = "message"}
    IN  IF ms = {} THEN 0
        ELSE log[CHOOSE i \in ms : \A j \in ms : j <= i].at

\* C3: while the stream is connecting or open one idle timer is armed, due a
\* full window after the last activity; when it fires the consumer closes
\* the connection first, so onError(Stream timeout) is delivered on a closed
\* connection, and the connection stays closed.
C3_IdleTimeoutClosesThenReports ==
    /\ readyState \in {"connecting", "open"} =>
          \E t \in timers : /\ t.id = heartbeatTimeout
                            /\ t.deadline = LastActivity + HeartbeatMs
    /\ \A i \in DOMAIN log :
          IsTimeout(log[i]) => /\ log[i].state = "closed"
                               /\ log[i].at >= HeartbeatMs
                               /\ readyState = "closed"

\* An open stream that delivered an update timed out a window later.
C3_Witness ==
    \E i, j \in DOMAIN log :
        /\ log[i].cb = "onUpdate"
        /\ IsTimeout(log[j])
        /\ log[j].ev = log[i].ev + 1
        /\ log[j].at = log[i].at + HeartbeatMs

\* The payloads that are no JSON text.
NotJson == {"not json", "{\"chunk\":"}

IsMalformed(e) ==
    /\ e.cb = "onError"
    /\ e.arg.kind = "Error"
    /\ e.arg.message[1] = "Failed to parse stream data: "

\* C4: a message whose payload is not JSON is answered by onError with the
\* parse failure and by nothing else (no onUpdate), and the connection is
\* closed from then on.
C4_MalformedEventReportedAndClosed ==
    \A i \in DOMAIN log :
        (log[i].cause.type = "message" /\ log[i].cause.data \in NotJson)
        => /\ IsMalformed(log[i])
           /\ \A j \in DOMAIN log : log[j].ev = log[i].ev => j = i
           /\ readyState = "closed"

\* After an update, a payload that is no JSON arrived.
C4_Witness ==
    \E i \in DOMAIN log :
        /\ i > 1
        /\ log[i].cause.type = "message"
        /\ log[i].cause.data = "not json"
        /\ log[i - 1].cb = "onUpdate"

\* The stream has ended in one of the ways C5 names, and the callback of
\* that end is the last one delivered.
Terminal ==
    /\ readyState = "closed"
    /\ log # <<>>
    /\ LET e == log[Len(log)]
       IN  \/ e.cause.type \in {"close", "error", "timeout"}
           \/ e.cause.type = "message" /\ e.cause.data \in NotJson

\* C5 as stated: in every terminal state the connection is closed and no
\* idle timer is pending.
C5_TerminalCancelsIdleTimer ==
    Terminal => timers = {}

\* C6: when getInsights throws under GET /insights/:keyword, whatever the
\* error, the client gets 500 {success: false, error: "Internal Server
\* Error"}, which is not the internal message.
C6_ErrorsAnsweredGeneric500 ==
    (last.entry = "route" /\ last.done.t = "throw")
    => /\ last.http = [status |-> 500,
                       body |-> [success |-> FALSE,
                                 error |-> <<"Internal Server Error">>]]
       /\ last.http.body.error # last.done.message

\* The route answered an upstream 500 whose message is "boom".
C6_Witness ==
    /\ last.entry = "route"
    /\ last.done = Throw(<<"Failed to get insights: ",
                           "Flow execution failed: ", "Request failed: ",
                           "HTTP ", "500", ": ", "boom">>)
    /\ last.http.status = 500

\* Some of flowId, langflowId and inputValue of the client call is empty
\* or missing.
ArgumentMissing ==
    /\ cCall # NoCall
    /\ \E a \in {cCall.flowId, cCall.langflowId, cCall.inputValue} :
          a \in {Undefined, Str("")}

\* C7: a call of initiateSession, direct or through runFlow, with an empty
\* or missing flowId, langflowId or inputValue fails with "Missing required
\* parameters" and has issued no fetch.
C7_MissingArgumentRejectedBeforeFetch ==
    ArgumentMissing
    => /\ cPc = "idle"
       /\ cFetches = <<>>
       /\ cOutcome = NoOutcome
       /\ cDone.t = "throw"
       /\ cDone.message[Len(cDone.message)] = "Missing required parameters"

\* runFlow was called with flow ids and an empty inputValue.
C7_Witness ==
    /\ cCall # NoCall
    /\ cCall.fn = "runFlow"
    /\ cCall.flowId = Str("a")
    /\ cCall.langflowId = Str("a")
    /\ cCall.inputValue = Str("")
    /\ cDone = Throw(<<"Flow execution failed: ",
                       "Missing required parameters">>)

\* The message names the HTTP status.
CarriesStatus(message, status) ==
    \E i \in 1..(Len(message) - 1) :
        message[i] = "HTTP " /\ message[i + 1] = ToString(status)

\* C8 as stated: for every upstream response that is not 2xx,
\* initiateSession fails with an error that carries the status code (which
\* no transport failure does).
C8_NonOkFailsWithStatus ==
    /\ (/\ cCall.fn = "initiateSession"
        /\ cOutcome.kind = "response"
        /\ cOutcome.status \notin 200..299)
       => cDone.t = "throw" /\ CarriesStatus(cDone.message, cOutcome.status)
    /\ (cCall.fn = "initiateSession" /\ cOutcome.kind = "rejected")
       => cDone.t = "throw"
          /\ \A st \in {404, 429, 500, 503} : ~CarriesStatus(cDone.message, st)

\* C9: when the upstream answers 200 with a JSON body that has nothing at
\* the text path, getInsights fails with "Invalid response format" and
\* returns nothing.
C9_MissingTextIsInvalidFormat ==
    UpstreamCarried(Undefined)
    => last.done = Throw(<<"Failed to get insights: ",
                           "Invalid response format">>)

\* A non-stream call got a 200 whose outputs are empty.
C9_Witness ==
    /\ UpstreamCarried(Undefined)
    /\ ~last.stream
    /\ last.outcome.body.v = Obj([outputs |-> Arr(<<>>)])
    /\ last.done.t = "throw"

\* The number of calls at their await for keyword k, and of upstream
\* requests in flight that carry k.
AwaitingFor(k) ==
    BagCardinality([c \in {x \in BagToSet(calls) : x.inputValue = k} |->
                        calls[c]])
RequestsFor(k) ==
    BagCardinality([r \in {x \in BagToSet(net) : x.input_value = Str(k)} |->
                        net[r]])

\* C10: calls are not coalesced: every call that missed has an upstream
\* request of its own in flight, for its own keyword.
C10_EveryMissFetchesItself ==
    /\ \A k \in Keywords : RequestsFor(k) = AwaitingFor(k)
    /\ BagCardinality(net) = BagCardinality(calls)

\* Two calls for one keyword both missed and both have a request in flight.
C10_Witness ==
    \E k \in Keywords :
        /\ AwaitingFor(k) = 2
        /\ RequestsFor(k) = 2

C13_EntryExpiresAfterTtl ==
    [][/\ \A k \in Keywords :
            (CacheKey(k) \in DOMAIN cache /\ Called(k))
            => IF now <= cache[CacheKey(k)].t
               THEN /\ last'.entry # "none"
                    /\ last'.done = Return(cache[CacheKey(k)].v)
                    /\ net' = net
               ELSE /\ last'.entry = "none"
                    /\ CacheKey(k) \notin DOMAIN cache'
                    /\ BagCardinality(net') = BagCardinality(net) + 1
                    /\ RequestsFor(k)' = RequestsFor(k) + 1
       /\ \A key \in DOMAIN cache' :
            (key \notin DOMAIN cache \/ cache'[key] # cache[key])
            => cache'[key].t = now' + 3600]_vars

\* A call found the entry of its keyword expired and its upstream request
\* is in flight, the entry gone.
C13_Witness ==
    \E k \in Keywords :
        /\ last = FoundExpired(k)
        /\ now > 3600
        /\ CacheKey(k) \notin DOMAIN cache
        /\ RequestsFor(k) >= 1

\* C14: the idle window is counted from the last message, not from the
\* attach: a timeout is never reported less than 30 s after any message
\* that came before it, and at no time is more than one idle timer pending.
C14_IdleWindowRestartsOnActivity ==
    /\ Cardinality(timers) <= 1
    /\ \A i \in DOMAIN log :
          IsTimeout(log[i])
          => \A j \in 1..(i - 1) :
                log[j].cause.type = "message"
                => log[i].at >= log[j].at + 30000

\* A stream open for more than one window, a message in the middle of the
\* first, timed out a full window after that message.
C14_Witness ==
    \E i, j \in DOMAIN log :
        /\ j < i
        /\ log[j].cause.type = "message"
        /\ log[j].at = 15000
        /\ IsTimeout(log[i])
        /\ log[i].at = 45000
        /\ timers = {}

\* C15 as stated: when the payload of a message parses and onUpdate throws,
\* the consumer does not catch it: no malformed-event error is reported for
\* that message.
C15_UpdateThrowNotCaught ==
    \A i \in DOMAIN log :
        (log[i].cause.type = "message" /\ JsonParse(log[i].cause.data).ok)
        => ~IsMalformed(log[i])

\* C17 as stated: once the stream has ended no callback is invoked, and a
\* stream delivers at most one terminal callback (onClose or onError).
C17_NoCallbackAfterEnd ==
    [][/\ readyState = "closed" => log' = log
       /\ Cardinality({i \in DOMAIN log' :
                         log'[i].cb \in {"onClose", "onError"}}) <= 1]_vars

\* The entry of keyword k is new or changed in this step.
Stored(k) ==
    /\ CacheKey(k) \in DOMAIN cache'
    /\ \/ CacheKey(k) \notin DOMAIN cache
       \/ cache'[CacheKey(k)] # cache[CacheKey(k)]

\* C16: the cache key depends on the keyword alone.  While a text is cached
\* for k, every call getInsights(k, ...), whatever its inputType, outputType
\* and stream flag, returns that text without an upstream request; two
\* keywords have two keys, and a step stores the entry of k only for a call
\* whose keyword is k.
C16_KeyIsKeywordAlone ==
    [][/\ \A k \in Keywords :
            /\ (/\ CacheKey(k) \in DOMAIN cache
                /\ ~Expired(cache[CacheKey(k)], now)
                /\ Called(k))
               => /\ last'.entry # "none"
                  /\ last'.mode \in Modes
                  /\ last'.stream \in BOOLEAN
                  /\ last'.done = Return(cache[CacheKey(k)].v)
                  /\ net' = net
            /\ Stored(k) => last'.entry # "none" /\ last'.inputValue = k
       /\ \A k1, k2 \in Keywords : k1 # k2 => CacheKey(k1) # CacheKey(k2)
       /\ DOMAIN cache' \subseteq {CacheKey(k) : k \in Keywords}]_vars

\* A stream call with inputType text and outputType json was answered the
\* cached text, while the other keyword has an entry of its own.
C16_Witness ==
    /\ last.entry # "none"
    /\ last.outcome = NoOutcome
    /\ last.stream
    /\ last.mode = <<"text", "json">>
    /\ last.done.t = "return"
    /\ last.done.v = cache[CacheKey(last.inputValue)].v
    /\ \E k \in Keywords :
          /\ k # last.inputValue
          /\ CacheKey(k) \in DOMAIN cache
          /\ cache[CacheKey(k)].v # last.done.v

\* The entries a lookup at time t can still see.
Live(c, t) == [key \in {x \in DOMAIN c : ~Expired(c[x], t)} |-> c[key]]

\* A call settled in this step and it failed.
Failed == last'.entry # "none" /\ last'.done.t = "throw"

\* C18: every cache entry holds a non-empty text, and an entry for k is
\* stored only when a non-stream call for k returns the text that its 200
\* response carried at the text path; a call that fails leaves the cache as
\* it was, and no step but a store changes what a lookup can see.
C18_CacheHoldsOnlyReturnedTexts ==
    [][/\ \A key \in DOMAIN cache' :
            cache'[key].v.tag = "string" /\ cache'[key].v.v # ""
       /\ \A k \in Keywords :
            Stored(k)
            => /\ last'.entry # "none"
               /\ last'.inputValue = k
               /\ ~last'.stream
               /\ last'.outcome # NoOutcome
               /\ last'.outcome.kind = "response"
               /\ last'.outcome.status = 200
               /\ last'.outcome.body.json
               /\ TextPath(last'.outcome.body.v) = cache'[CacheKey(k)].v
               /\ last'.done = Return(cache'[CacheKey(k)].v)
       /\ Failed => cache' = cache
       /\ (\A k \in Keywords : ~Stored(k))
          => Live(cache', now) = Live(cache, now)]_vars

\* A stream call failed although its response carried a text, and the
\* entry of its keyword, stored meanwhile by another call, is as it was.
C18_Witness ==
    /\ last.entry # "none"
    /\ last.stream
    /\ last.outcome # NoOutcome
    /\ last.outcome.kind = "response"
    /\ last.outcome.status = 200
    /\ last.outcome.body.json
    /\ TextPath(last.outcome.body.v) = Str("T2")
    /\ last.done.t = "throw"
    /\ CacheKey(last.inputValue) \in DOMAIN cache
    /\ cache[CacheKey(last.inputValue)].v = Str("T1")

====
